---- MODULE Spec2Model ----
(***************************************************************************)
(* Model of the redis-dumper dump pipeline (lib/dump.js, kept here as      *)
(* src/unnamed/part_001 lines 1-159): the RedisDumper Readable, its scan   *)
(* stream handlers, the per-key resolution chain and outputProtocol.       *)
(*                                                                         *)
(* The platform the class runs on is modelled as far as the class relies   *)
(* on it:                                                                  *)
(*  - stream.Readable (the dumper itself): _read is called only when no    *)
(*    _read is outstanding (state.reading) and never after push(null);     *)
(*    runs with a _read after destroy() are not explored; push(chunk)      *)
(*    answers the outstanding _read;                                       *)
(*    whether a chunk pushed after destroy() still reaches the consumer    *)
(*    depends on the Node release, so both outcomes are possible; 'end'    *)
(*    is emitted once after push(null).                                    *)
(*  - ioredis ScanStream (an object-mode Readable): it issues SCAN calls   *)
(*    while its buffer is below the high water mark, also while paused;    *)
(*    'data' and 'end' are emitted only while it is flowing; after a SCAN  *)
(*    error it emits 'error' and fetches no more.                          *)
(*  - ioredis client: every call is one round trip that ends with a reply  *)
(*    or an error; disconnect() half-closes the socket, so a call already  *)
(*    in flight may still be answered; a call on a null client throws      *)
(*    TypeError. The client's own 'error' events (line 81: a connection   *)
(*    that drops and is re-established) are not among the runs explored.   *)
(*  - the store: SCAN MATCH returns on each page only keys the pattern     *)
(*    matches (glob patterns of literals and '*').                         *)
(*                                                                         *)
(* Spec and LiveSpec are the pipeline for a dumper constructed with one of *)
(* Filters; CallSpec is outputProtocol taken alone, applied to each        *)
(* argument tuple of CallInputs.                                           *)
(***************************************************************************)
EXTENDS Integers, Sequences, FiniteSets, TLC

\* ------------------------------------------------------------------ bounds
NumKeys == 2          \* keys in the database
MaxPages == 3         \* SCAN pages the store takes to report cursor 0
ScanHWM == 1          \* pages the scan stream buffers ahead (Node: 16)
MaxElems == 4         \* elements of a value given to outputProtocol alone
MaxTtlLen == 2        \* characters of a ttl text given to outputProtocol alone

Keys == 1..NumKeys

\* the count hint given to the scan (line 85): the size of a batch
count == 100

VARIABLES
  \* fields of RedisDumper (constructor, lines 54-77)
  redis,          \* "null" | "client"
  scanStream,     \* "null" | "stream"
  scanDrained,    \* BOOLEAN
  dumping,        \* counter of resolutions in flight
  keys,           \* current batch, a sequence of keys
  \* the dumper as a Readable, seen by the consumer
  reading,        \* a _read call is outstanding (not yet answered by push)
  endSignals,     \* number of super.push(null) calls
  endEmitted,     \* 'end' was emitted
  destroyed,      \* destroy() ran
  cancelled,      \* the consumer called destroy() (cancel)
  out,            \* blocks delivered to the consumer, in order
  errors,         \* number of 'error' events emitted on the dumper
  crashed,        \* an exception escaped a handler (uncaught TypeError)
  \* the ioredis client
  conn,           \* "none" | "open" | "closed"
  requests,       \* batches requested: scan started or resumed
  fetches,        \* type / value / ttl calls issued
  \* the ioredis scan stream and the store's cursor
  scanFlowing,    \* flowing (TRUE) or paused (FALSE)
  scanBuf,        \* pages fetched ahead, not yet emitted
  scanPending,    \* a SCAN call is in flight
  scanCursorDone, \* the store returned cursor 0
  scanNullPushed, \* the scan stream pushed null
  scanEndEmitted, \* the scan stream emitted 'end'
  scanFailed,     \* a SCAN call failed
  remaining,      \* keys the store has not returned yet
  pagesReturned,  \* SCAN replies so far
  \* per-key resolution chain of dumpKey
  stage,          \* Keys -> "idle" | "type" | "fetch" | "done" | "failed" | "unhandled" | "threw"
  rtype,          \* Keys -> type the store reported
  \* constructor option (line 70)
  filter,         \* the match pattern, a sequence of characters
  \* one call of outputProtocol taken alone
  callArgs,       \* its arguments [key, type, value, ttl], <<>> when not called
  result,         \* the frames it returned
  returned        \* the call has returned

fieldVars == <<redis, scanStream, scanDrained, dumping, keys>>
readableVars == <<reading, endSignals, endEmitted, destroyed, cancelled, out, errors, crashed>>
clientVars == <<conn, requests, fetches>>
scanVars == <<scanFlowing, scanBuf, scanPending, scanCursorDone, scanNullPushed,
              scanEndEmitted, scanFailed, remaining, pagesReturned>>
chainVars == <<stage, rtype>>
callVars == <<callArgs, result, returned>>
vars == <<fieldVars, readableVars, clientVars, scanVars, chainVars, filter, callVars>>

\* ------------------------------------------------------- value serialization
SupportedTypes == {"string", "list", "set", "zset", "hash"}

\* What TYPE answers in the runs explored: a scalar type, a container type, or
\* a type loadValue has no case for ("none" for a key that is gone, "stream",
\* a module type).
ReplyTypes == {"string", "zset", "none"}

\* What TTL may answer, as the text of the reply (stringNumbers: true).
TtlReplies == { <<"-", "1">>, <<"5">> }

Digits == <<"0", "1", "2", "3", "4", "5", "6", "7", "8", "9">>

IsDigit(c) == \E i \in 1..10 : Digits[i] = c

DigitVal(c) == (CHOOSE i \in 1..10 : Digits[i] = c) - 1

RECURSIVE DigitPrefix(_, _)
\* value of the longest prefix of digits of s, continuing from acc
DigitPrefix(s, acc) ==
  IF s = <<>> \/ ~IsDigit(Head(s)) THEN acc
  ELSE DigitPrefix(Tail(s), 10 * acc + DigitVal(Head(s)))

\* parseInt(text, 10): optional sign, then the leading digits; NaN without one.
parseInt(s) ==
  LET neg == s # <<>> /\ Head(s) = "-"
      body == IF s # <<>> /\ Head(s) \in {"-", "+"} THEN Tail(s) ELSE s
  IN IF body = <<>> \/ ~IsDigit(Head(body))
       THEN [nan |-> TRUE, val |-> 0]
       ELSE [nan |-> FALSE,
             val |-> IF neg THEN 0 - DigitPrefix(body, 0) ELSE DigitPrefix(body, 0)]

RECURSIVE NatToStr(_)
NatToStr(n) ==
  IF n < 10 THEN <<Digits[n + 1]>>
  ELSE NatToStr(n \div 10) \o <<Digits[(n % 10) + 1]>>

\* String(number), as Command does for a numeric argument
IntToStr(n) == IF n < 0 THEN <<"-">> \o NatToStr(0 - n) ELSE NatToStr(n)

\* the array is left as the store returned it
ReverseForgotten(s) == s

RECURSIVE Reverse(_)
\* Array.prototype.reverse (line 35)
Reverse(s) == IF s = <<>> THEN <<>> ELSE Reverse(Tail(s)) \o <<Head(s)>>

\* the arguments after the key are left out of the frame
cmdKeyOnly(verb, key, args) == [verb |-> verb, key |-> key, args |-> <<>>]

\* cmd(verb, [key, ...args]): one command frame
cmd(verb, key, args) == [verb |-> verb, key |-> key, args |-> args]

outputProtocol(key, type, value, ttl) ==
  LET commands ==
        CASE type = "string" -> << cmd("SET", key, value) >>
          [] type = "list"   -> << cmd("DEL", key, <<>>), cmd("RPUSH", key, value) >>
          [] type = "set"    -> << cmd("DEL", key, <<>>), cmd("SADD", key, value) >>
          [] type = "zset"   -> << cmd("DEL", key, <<>>), cmd("ZADD", key, Reverse(value)) >>
          [] type = "hash"   -> << cmd("DEL", key, <<>>), cmd("HMSET", key, value) >>
          [] OTHER           -> << >>
      expire == parseInt(ttl)
  IN IF ~expire.nan /\ expire.val # -1
       THEN commands \o << cmd("EXPIRE", key, << IntToStr(expire.val) >>) >>
       ELSE commands

\* What the store holds under a key of each type, as loadValue's call returns it.
StoreValue(type) ==
  CASE type = "string" -> << <<"v">> >>
    [] type = "list"   -> << <<"a">>, <<"b">> >>
    [] type = "set"    -> << <<"x">>, <<"y">> >>
    [] type = "zset"   -> << <<"x">>, <<"1">>, <<"y">>, <<"2">> >>
    [] type = "hash"   -> << <<"f">>, <<"v">>, <<"g">>, <<"w">> >>
    [] OTHER           -> << >>

\* ------------------------------------------------------------------ filter
\* the name of key k: the first key is "o:1", the others "m:<k>"
KeyName(k) == (IF k = 1 THEN <<"o">> ELSE <<"m">>) \o <<":">> \o NatToStr(k)

\* match patterns a dumper is constructed with: everything, a prefix some
\* keys have, a prefix no key has
Filters == { <<"*">>, <<"m", ":", "*">>, <<"n", ":", "*">> }

RECURSIVE GlobMatch(_, _)
\* the store's glob match of SCAN MATCH, for patterns of literals and '*'
GlobMatch(p, s) ==
  IF p = <<>> THEN s = <<>>
  ELSE IF Head(p) = "*"
    THEN GlobMatch(Tail(p), s) \/ (s # <<>> /\ GlobMatch(p, Tail(s)))
    ELSE s # <<>> /\ Head(s) = Head(p) /\ GlobMatch(Tail(p), Tail(s))

\* the keys of the database a pattern selects
Matching(p) == { k \in Keys : GlobMatch(p, KeyName(k)) }

\* the filter ignored: the scan is made over every key
scanMatchEverything == <<"*">>

\* the match option the scan stream is created with (line 84)
scanMatch == filter

\* ------------------------------------------------------------------ Init
\* the fields after the constructor (lines 54-77), nothing requested yet
Constructed ==
  /\ redis = "null"
  /\ scanStream = "null"
  /\ scanDrained = FALSE
  /\ dumping = 0
  /\ keys = <<>>
  /\ reading = FALSE
  /\ endSignals = 0
  /\ endEmitted = FALSE
  /\ destroyed = FALSE
  /\ cancelled = FALSE
  /\ out = <<>>
  /\ errors = 0
  /\ crashed = FALSE
  /\ conn = "none"
  /\ requests = 0
  /\ fetches = 0
  /\ scanFlowing = FALSE
  /\ scanBuf = <<>>
  /\ scanPending = FALSE
  /\ scanCursorDone = FALSE
  /\ scanNullPushed = FALSE
  /\ scanEndEmitted = FALSE
  /\ scanFailed = FALSE
  /\ remaining = Keys
  /\ pagesReturned = 0
  /\ stage = [k \in Keys |-> "idle"]
  /\ rtype = [k \in Keys |-> "none"]

\* a dumper constructed with one of the filters, over a database of Keys
Init ==
  /\ Constructed
  /\ filter \in Filters
  /\ callArgs = <<>>
  /\ result = <<>>
  /\ returned = FALSE

\* --------------------------------------------------------------- nextKey
\* isPaused() of the scan stream (line 108)
IsPaused == scanStream = "stream" /\ ~scanFlowing

\* off by one: the last key of a batch is never taken
BatchHasKeysOffByOne(ks) == Len(ks) > 1

\* line 102: the batch still holds a key
BatchHasKeys(ks) == Len(ks) > 0

\* the test on the exhaustion flag turned round
ShouldResumeWhenDrained(drained, paused) == drained /\ paused

\* line 108: start the next page
ShouldResume(drained, paused) == ~drained /\ paused

\* the comparison turned round: the end waits for a resolution in flight
ShouldEndWhileDumping(drained, dmp) == drained /\ dmp > 0

\* line 110: everything is enumerated and resolved
ShouldEnd(drained, dmp) == drained /\ dmp = 0

\* the return of line 103 forgotten: after dumping a key the call goes on to
\* the scan stream checks
NextKeyPlanNoReturn(ks, ss, drained, paused, dmp) ==
  IF BatchHasKeys(ks)
    THEN {"dump"} \cup (IF ss # "null" /\ ShouldResume(drained, paused) THEN {"resume"}
                        ELSE IF ss # "null" /\ ShouldEnd(drained, dmp + 1) THEN {"end"}
                        ELSE {})
  ELSE IF ss = "null" THEN {"setup"}
  ELSE IF ShouldResume(drained, paused) THEN {"resume"}
  ELSE IF ShouldEnd(drained, dmp) THEN {"end"}
  ELSE {}

\* nextKey (lines 101-113) as the set of steps one call takes:
\* "dump" a key, "setup" the scan, "resume" it, signal the "end", or none.
NextKeyPlan(ks, ss, drained, paused, dmp) ==
  IF BatchHasKeys(ks) THEN {"dump"}
  ELSE IF ss = "null" THEN {"setup"}
  ELSE IF ShouldResume(drained, paused) THEN {"resume"}
  ELSE IF ShouldEnd(drained, dmp) THEN {"end"}
  ELSE {}

\* setupScanStream (lines 79-99): open the client, create the scan stream and
\* attach the listeners; attaching 'data' starts the stream flowing.
setupScanStream ==
  /\ redis' = "client"
  /\ conn' = "open"
  /\ scanStream' = "stream"

\* dumpKey up to the type call (lines 115-118): count the resolution, then
\* issue the call, which throws TypeError out of the handler on a null client.
dumpKey(k) ==
  /\ dumping' = dumping + 1
  /\ IF redis = "null"
       THEN /\ crashed' = TRUE
            /\ UNCHANGED <<stage, fetches>>
       ELSE /\ stage' = [stage EXCEPT ![k] = "type"]
            /\ fetches' = fetches + 1
            /\ crashed' = crashed

\* One call of nextKey (lines 101-113) with its effects: keys.pop() and
\* dumpKey, setupScanStream, scanStream.resume() (line 109) or
\* super.push(null) (line 111). ks, drained, paused and rd are the batch, the
\* exhaustion flag, the scan stream's pause state and the outstanding-_read
\* flag as the caller left them.
nextKey(ks, drained, paused, rd) ==
  LET plan == NextKeyPlan(ks, scanStream, drained, paused, dumping)
      throws == "dump" \in plan /\ redis = "null"
      starts == ~throws /\ (plan \cap {"setup", "resume"}) # {}
  IN /\ scanDrained' = drained
     /\ IF "dump" \in plan
          THEN /\ keys' = SubSeq(ks, 1, Len(ks) - 1)
               /\ dumpKey(ks[Len(ks)])
          ELSE /\ keys' = ks
               /\ UNCHANGED <<dumping, crashed, stage, fetches>>
     /\ IF ~throws /\ "setup" \in plan
          THEN setupScanStream
          ELSE UNCHANGED <<redis, conn, scanStream>>
     /\ scanFlowing' = IF starts THEN TRUE ELSE ~paused
     /\ requests' = IF starts THEN requests + 1 ELSE requests
     /\ IF ~throws /\ "end" \in plan
          THEN /\ endSignals' = endSignals + 1
               /\ reading' = FALSE
          ELSE /\ endSignals' = endSignals
               /\ reading' = rd

\* _read (lines 146-148), called by the Readable when the consumer wants more
\* and no _read is outstanding.
_read ==
  /\ ~crashed /\ ~destroyed
  /\ ~reading /\ endSignals = 0
  /\ nextKey(keys, scanDrained, IsPaused, TRUE)
  /\ UNCHANGED <<endEmitted, destroyed, cancelled, out, errors,
                 scanBuf, scanPending, scanCursorDone, scanNullPushed,
                 scanEndEmitted, scanFailed, remaining, pagesReturned, rtype>>
  /\ UNCHANGED <<filter, callVars>>

\* ------------------------------------------------------------ scan stream
\* the orders in which a page can list the keys of S
Orderings(S) ==
  { f \in [1..Cardinality(S) -> S] : \A i, j \in 1..Cardinality(S) : f[i] = f[j] => i = j }

\* the pause of line 90 forgotten: the scan stream keeps flowing
OnScanDataNoPause(page) ==
  nextKey(page, scanDrained, FALSE, reading)

\* scan 'data' handler (lines 88-92): take the page as the batch, pause the
\* scan, call nextKey.
OnScanData(page) ==
  nextKey(page, scanDrained, TRUE, reading)

\* ScanStream._read: the scan stream asks the store for the next page, or
\* pushes null once the cursor came back 0. A call on a closed client fails.
ScanFetch ==
  /\ ~crashed
  /\ scanStream = "stream"
  /\ ~scanPending /\ ~scanNullPushed /\ ~scanFailed
  /\ Len(scanBuf) < ScanHWM
  /\ IF scanCursorDone
       THEN /\ scanNullPushed' = TRUE
            /\ UNCHANGED <<scanPending, scanFailed, errors>>
       ELSE IF conn = "closed"
         THEN /\ scanFailed' = TRUE
              /\ errors' = errors + 1
              /\ UNCHANGED <<scanPending, scanNullPushed>>
         ELSE /\ scanPending' = TRUE
              /\ UNCHANGED <<scanNullPushed, scanFailed, errors>>
  /\ UNCHANGED <<fieldVars, reading, endSignals, endEmitted, destroyed, cancelled, out,
                 crashed, clientVars, scanFlowing, scanBuf, scanCursorDone,
                 scanEndEmitted, remaining, pagesReturned, chainVars>>
  /\ UNCHANGED <<filter, callVars>>

\* A SCAN reply: some of the keys that match and were not returned yet, in
\* some order, and whether the cursor is 0. The stream emits the page at once when it is flowing with
\* an empty buffer, and buffers it otherwise.
ScanReply ==
  /\ ~crashed
  /\ scanPending
  /\ \E S \in SUBSET (remaining \cap Matching(scanMatch)), last \in BOOLEAN :
       /\ last => S = remaining \cap Matching(scanMatch)
       /\ pagesReturned + 1 >= MaxPages => last
       /\ \E page \in Orderings(S) :
            /\ remaining' = remaining \ S
            /\ scanCursorDone' = last
            /\ IF scanFlowing /\ scanBuf = <<>>
                 THEN /\ OnScanData(page)
                      /\ scanBuf' = scanBuf
                 ELSE /\ scanBuf' = Append(scanBuf, page)
                      /\ UNCHANGED <<fieldVars, reading, endSignals, crashed, conn,
                                     requests, fetches, scanFlowing, stage>>
  /\ scanPending' = FALSE
  /\ pagesReturned' = pagesReturned + 1
  /\ UNCHANGED <<endEmitted, destroyed, cancelled, out, errors,
                 scanNullPushed, scanEndEmitted, scanFailed, rtype>>
  /\ UNCHANGED <<filter, callVars>>

\* The flowing scan stream emits a buffered page.
ScanFlow ==
  /\ ~crashed
  /\ scanFlowing /\ scanBuf # <<>>
  /\ OnScanData(Head(scanBuf))
  /\ scanBuf' = Tail(scanBuf)
  /\ UNCHANGED <<endEmitted, destroyed, cancelled, out, errors,
                 scanPending, scanCursorDone, scanNullPushed, scanEndEmitted,
                 scanFailed, remaining, pagesReturned, rtype>>
  /\ UNCHANGED <<filter, callVars>>

\* scan 'end' handler (lines 93-96): mark the enumeration exhausted, call
\* nextKey.
ScanEnd ==
  /\ ~crashed
  /\ scanFlowing /\ scanBuf = <<>>
  /\ scanNullPushed /\ ~scanEndEmitted
  /\ scanEndEmitted' = TRUE
  /\ nextKey(keys, TRUE, FALSE, reading)
  /\ UNCHANGED <<endEmitted, destroyed, cancelled, out, errors,
                 scanBuf, scanPending, scanCursorDone, scanNullPushed,
                 scanFailed, remaining, pagesReturned, rtype>>
  /\ UNCHANGED <<filter, callVars>>

\* scan 'error' listener (line 87): a SCAN call fails; emitError.
ScanFail ==
  /\ ~crashed
  /\ scanPending
  /\ scanPending' = FALSE
  /\ scanFailed' = TRUE
  /\ errors' = errors + 1
  /\ UNCHANGED <<fieldVars, reading, endSignals, endEmitted, destroyed, cancelled, out,
                 crashed, clientVars, scanFlowing, scanBuf, scanCursorDone,
                 scanNullPushed, scanEndEmitted, remaining, pagesReturned, chainVars>>
  /\ UNCHANGED <<filter, callVars>>

\* -------------------------------------------------------- key resolution
\* loadValue (lines 124-139): the types it has a fetch for; any other throws.
LoadValueHandles(type) == type \in SupportedTypes

\* The type reply of dumpKey's chain (line 119): loadValue and the ttl call
\* are issued, unless loadValue throws 'Unhandled type' or the client field
\* is null by now (TypeError); either rejection goes to emitError (line 121).
TypeReply(k) ==
  /\ ~crashed
  /\ stage[k] = "type"
  /\ \E t \in ReplyTypes :
       IF ~LoadValueHandles(t)
         THEN /\ stage' = [stage EXCEPT ![k] = "unhandled"]
              /\ errors' = errors + 1
              /\ UNCHANGED <<fetches, rtype>>
         ELSE IF redis = "null"
           THEN /\ stage' = [stage EXCEPT ![k] = "threw"]
                /\ errors' = errors + 1
                /\ UNCHANGED <<fetches, rtype>>
           ELSE /\ stage' = [stage EXCEPT ![k] = "fetch"]
                /\ rtype' = [rtype EXCEPT ![k] = t]
                /\ fetches' = fetches + 2
                /\ errors' = errors
  /\ UNCHANGED <<fieldVars, reading, endSignals, endEmitted, destroyed, cancelled, out,
                 crashed, conn, requests, scanVars>>
  /\ UNCHANGED <<filter, callVars>>

\* The type call fails: the chain rejects, emitError (line 121).
TypeFail(k) ==
  /\ ~crashed
  /\ stage[k] = "type"
  /\ stage' = [stage EXCEPT ![k] = "failed"]
  /\ errors' = errors + 1
  /\ UNCHANGED <<fieldVars, reading, endSignals, endEmitted, destroyed, cancelled, out,
                 crashed, clientVars, scanVars, rtype>>
  /\ UNCHANGED <<filter, callVars>>

\* the block is put in front of what was delivered before
superPushFront(block, delivered) ==
  IF endSignals > 0
    THEN /\ errors' = errors + 1
         /\ UNCHANGED <<out, reading>>
    ELSE IF destroyed /\ ~delivered
      THEN UNCHANGED <<out, reading, errors>>
      ELSE /\ out' = <<block>> \o out
           /\ reading' = FALSE
           /\ errors' = errors

\* super.push(block) of a Readable: after push(null) it is an error event;
\* after destroy() the chunk is delivered or dropped, by Node release;
\* otherwise it is delivered and answers the outstanding _read.
superPush(block, delivered) ==
  IF endSignals > 0
    THEN /\ errors' = errors + 1
         /\ UNCHANGED <<out, reading>>
    ELSE IF destroyed /\ ~delivered
      THEN UNCHANGED <<out, reading, errors>>
      ELSE /\ out' = Append(out, block)
           /\ reading' = FALSE
           /\ errors' = errors

\* the block is handed on without counting the resolution as finished
pushUncounted(block, delivered) ==
  /\ dumping' = dumping
  /\ superPush(block, delivered)

\* push (lines 141-144): count the resolution as finished, hand the block on.
push(block, delivered) ==
  /\ dumping' = dumping - 1
  /\ superPush(block, delivered)

\* The value and the ttl have both arrived (line 120): serialize and push.
FetchReply(k) ==
  /\ ~crashed
  /\ stage[k] = "fetch"
  /\ \E ttl \in TtlReplies, delivered \in BOOLEAN :
       /\ destroyed \/ delivered
       /\ push(outputProtocol(k, rtype[k], StoreValue(rtype[k]), ttl), delivered)
  /\ stage' = [stage EXCEPT ![k] = "done"]
  /\ UNCHANGED <<redis, scanStream, scanDrained, keys, endSignals, endEmitted,
                 destroyed, cancelled, crashed, clientVars, scanVars, rtype>>
  /\ UNCHANGED <<filter, callVars>>

\* The value or the ttl call fails: Promise.all rejects once, emitError.
FetchFail(k) ==
  /\ ~crashed
  /\ stage[k] = "fetch"
  /\ stage' = [stage EXCEPT ![k] = "failed"]
  /\ errors' = errors + 1
  /\ UNCHANGED <<fieldVars, reading, endSignals, endEmitted, destroyed, cancelled, out,
                 crashed, clientVars, scanVars, rtype>>
  /\ UNCHANGED <<filter, callVars>>

\* ------------------------------------------------------------- life cycle
\* _destroy (lines 150-155): disconnect and clear the client field.
_destroy ==
  IF redis # "null"
    THEN /\ conn' = "closed"
         /\ redis' = "null"
    ELSE UNCHANGED <<conn, redis>>

\* The consumer cancels: destroy() on the dumper.
Cancel ==
  /\ ~crashed
  /\ ~destroyed
  /\ destroyed' = TRUE
  /\ cancelled' = TRUE
  /\ _destroy
  /\ UNCHANGED <<scanStream, scanDrained, dumping, keys, reading, endSignals,
                 endEmitted, out, errors, crashed, requests, fetches,
                 scanVars, chainVars>>
  /\ UNCHANGED <<filter, callVars>>

\* 'end' is emitted; the once('end') listener (lines 74-76) calls destroy(),
\* which does nothing on a destroyed stream.
EmitEnd ==
  /\ ~crashed
  /\ endSignals > 0 /\ ~endEmitted
  /\ endEmitted' = TRUE
  /\ IF destroyed
       THEN UNCHANGED <<destroyed, conn, redis>>
       ELSE /\ destroyed' = TRUE
            /\ _destroy
  /\ UNCHANGED <<scanStream, scanDrained, dumping, keys, reading, endSignals,
                 cancelled, out, errors, crashed, requests, fetches,
                 scanVars, chainVars>>
  /\ UNCHANGED <<filter, callVars>>

\* ------------------------------------------------- outputProtocol alone
\* elements a value is made of: a member or field name, a number
Elems == { <<"x">>, <<"1">> }

\* the values of up to MaxElems elements
ValueSeqs == UNION { [1..n -> Elems] : n \in 0..MaxElems }

\* characters of a ttl text: sign, digits, a letter
TtlChars == {"-", "0", "1", "2", "x"}

\* the ttl texts of up to MaxTtlLen characters
TtlTexts == UNION { [1..n -> TtlChars] : n \in 0..MaxTtlLen }

\* the arguments outputProtocol is called with: a string has one value, a
\* sorted set and a hash come as pairs, a type without a case has no value
CallInputs ==
  { a \in [key : Keys, type : SupportedTypes \cup {"none"}, value : ValueSeqs, ttl : TtlTexts] :
      /\ a.type = "string" => Len(a.value) = 1
      /\ a.type \in {"zset", "hash"} => Len(a.value) % 2 = 0
      /\ a.type = "none" => a.value = <<>> }

\* a dumper just constructed and one call of outputProtocol to be made
CallInit ==
  /\ Constructed
  /\ filter = <<"*">>
  /\ callArgs \in CallInputs
  /\ result = <<>>
  /\ returned = FALSE

\* the call of outputProtocol (lines 19-51)
Serialize ==
  /\ ~returned
  /\ result' = outputProtocol(callArgs.key, callArgs.type, callArgs.value, callArgs.ttl)
  /\ returned' = TRUE
  /\ UNCHANGED <<fieldVars, readableVars, clientVars, scanVars, chainVars, filter, callArgs>>

\* ---------------------------------------------------------- specifications
Next ==
  \/ _read
  \/ ScanFetch
  \/ ScanReply
  \/ ScanFlow
  \/ ScanEnd
  \/ ScanFail
  \/ \E k \in Keys : TypeReply(k)
  \/ \E k \in Keys : TypeFail(k)
  \/ \E k \in Keys : FetchReply(k)
  \/ \E k \in Keys : FetchFail(k)
  \/ Cancel
  \/ EmitEnd

Spec == Init /\ [][Next]_vars

\* The runs in which the consumer keeps pulling and never cancels, and every
\* store call is answered without an error.
LiveNext ==
  \/ _read
  \/ ScanFetch
  \/ ScanReply
  \/ ScanFlow
  \/ ScanEnd
  \/ \E k \in Keys : TypeReply(k)
  \/ \E k \in Keys : FetchReply(k)
  \/ EmitEnd

CallNext == Serialize

CallSpec == CallInit /\ [][CallNext]_vars

LiveSpec == Init /\ [][LiveNext]_vars /\ WF_vars(LiveNext)

\* ------------------------------------------------------------------ claims
\* resolutions started by dumpKey and neither pushed nor rejected yet
InFlight == { k \in Keys : stage[k] \in {"type", "fetch"} }

\* a store error (scan, type, value or ttl call) was surfaced as a stream error
StoreErrorSurfaced == scanFailed \/ \E k \in Keys : stage[k] = "failed"

\* C1: end-of-stream is signalled at most once, and when it is signalled the
\* batch is empty, the scan has reported exhaustion (scanDrained) and no key
\* resolution is in flight.
C1_EndOnceWhenDrained ==
  [][endSignals' # endSignals =>
       /\ endSignals = 0 /\ endSignals' = 1
       /\ keys' = <<>>
       /\ scanDrained' /\ scanEndEmitted'
       /\ dumping' = 0
       /\ { k \in Keys : stage'[k] \in {"type", "fetch"} } = {}]_vars

C1_Witness == endSignals = 1 /\ out # <<>> /\ scanDrained

\* the block the dump holds for key k at position i: one run, of k's type
IsRunOf(block, k) ==
  \E ttl \in TtlReplies : block = outputProtocol(k, rtype[k], StoreValue(rtype[k]), ttl)

\* C2: without a store error and without cancel, when end-of-stream is
\* signalled the output holds exactly one command run for each key the scan
\* selects, whatever the pages and the completion order were.
C2_OneRunPerKey ==
  (endSignals > 0 /\ errors = 0 /\ ~cancelled) =>
     /\ Len(out) = Cardinality(Matching(filter))
     /\ \A k \in Matching(filter) : \E i \in 1..Len(out) :
          /\ IsRunOf(out[i], k)
          /\ \A j \in 1..Len(out) : (out[j] # <<>> /\ out[j][1].key = k) => j = i

C2_Witness ==
  /\ endSignals > 0 /\ errors = 0 /\ ~cancelled
  /\ Len(out) = NumKeys
  /\ pagesReturned >= 2

\* C3: when the consumer keeps pulling and every store call is answered
\* without an error, end-of-stream is eventually signalled.
C3_EventuallyEnds == <>(endSignals > 0)

\* C3, for the runs in which no key has a type loadValue rejects.
C3_EndsUnlessUnhandled ==
  <>(endSignals > 0 \/ \E k \in Keys : stage[k] = "unhandled")

\* C4: a key whose type is not handled is skipped silently: the step that
\* receives such a type emits no error and no frame and decrements the
\* in-flight counter.
C4_UnsupportedSkipped ==
  [][\A k \in Keys :
       (stage[k] = "type" /\ stage'[k] = "unhandled") =>
          (errors' = errors /\ out' = out /\ dumping' = dumping - 1)]_vars

\* C5: once a store error has been surfaced, no batch is requested, no key
\* resolution is started, no block is delivered and end-of-stream is not
\* signalled.
C5_AbortAfterStoreError ==
  [][StoreErrorSurfaced =>
       /\ requests' = requests
       /\ dumping' <= dumping
       /\ out' = out
       /\ endSignals' = endSignals]_vars

\* C6: at most one error signal is surfaced to the consumer.
C6_SingleError == errors <= 1

\* C7: in every terminal state (ended, fatal error surfaced, cancelled) the
\* store connection is released.
C7_ConnectionReleased ==
  (endEmitted \/ errors > 0 \/ cancelled) => conn # "open"

\* C8: after cancel the pipeline issues no new store call: no batch request,
\* no type, value or ttl call.
C8_NoCallsAfterCancel ==
  [][cancelled => (requests' = requests /\ fetches' = fetches)]_vars

\* C9: after cancel no further block is delivered to the consumer.
C9_NoBytesAfterCancel ==
  [][cancelled => out' = out]_vars

\* C10: a batch is requested (the scan is started or resumed) only while a
\* consumer pull is outstanding.
C10_RequestOnlyWhilePulled ==
  [][requests' # requests => reading']_vars

C10_Witness == requests >= 2 /\ reading /\ out # <<>>

\* C11: the number of key resolutions in flight never exceeds the batch size
\* (count), also while the next page is being fetched: each pull starts one
\* resolution and the next starts only after its block was pushed, so at most
\* one is in flight.
C11_InFlightWithinBatch ==
  /\ Cardinality(InFlight) <= 1
  /\ dumping <= 1
  /\ 1 <= count

C11_Witness ==
  /\ Cardinality(InFlight) = 1
  /\ scanPending
  /\ pagesReturned >= 1
  /\ out # <<>>

\* the frames of a run before its EXPIRE frame
BeforeExpire(frames) ==
  IF frames # <<>> /\ frames[Len(frames)].verb = "EXPIRE"
    THEN SubSeq(frames, 1, Len(frames) - 1)
    ELSE frames

\* C12: before any EXPIRE, a string is the single frame SET key value with no
\* DEL; a list, a set and a hash are DEL key followed by one RPUSH, SADD or
\* HMSET of the key with all elements in the order the store returned them.
C12_FramesPerType ==
  returned =>
    LET k == callArgs.key
        v == callArgs.value
        del == [verb |-> "DEL", key |-> k, args |-> <<>>]
        body == BeforeExpire(result)
    IN /\ callArgs.type = "string" => body = << [verb |-> "SET", key |-> k, args |-> v] >>
       /\ callArgs.type = "list" => body = << del, [verb |-> "RPUSH", key |-> k, args |-> v] >>
       /\ callArgs.type = "set" => body = << del, [verb |-> "SADD", key |-> k, args |-> v] >>
       /\ callArgs.type = "hash" => body = << del, [verb |-> "HMSET", key |-> k, args |-> v] >>

C12_Witness ==
  /\ returned
  /\ callArgs.type = "list"
  /\ Len(callArgs.value) >= 2
  /\ callArgs.value[1] # callArgs.value[2]
  /\ Len(result) = 3

\* C13: EXPIRE key t is the last frame of the run exactly when the ttl parses
\* to a non-negative integer t; for -1, for any other negative number and for
\* a text that does not parse there is no EXPIRE frame.
C13_ExpireIffNonNegative ==
  returned =>
    LET t == parseInt(callArgs.ttl)
        n == Len(result)
        expires == { i \in 1..n : result[i].verb = "EXPIRE" }
    IN IF ~t.nan /\ t.val >= 0
         THEN /\ expires = {n}
              /\ result[n] = [verb |-> "EXPIRE", key |-> callArgs.key,
                              args |-> << IntToStr(t.val) >>]
         ELSE expires = {}

\* the arguments of the ZADD frame of a sorted set's run
ZaddArgs == result[2].args

\* C14 as stated: for a sorted set the store returned as m1, s1, ..., mn, sn
\* the frame is ZADD key s1 m1 ... sn mn, the pairs in the store's order.
C14_ZaddPairsInStoreOrder ==
  (returned /\ callArgs.type = "zset") =>
    LET v == callArgs.value
    IN /\ result[2].verb = "ZADD"
       /\ Len(ZaddArgs) = Len(v)
       /\ \A j \in 1..(Len(v) \div 2) :
            /\ ZaddArgs[2 * j - 1] = v[2 * j]
            /\ ZaddArgs[2 * j] = v[2 * j - 1]

\* C14 amended: for a sorted set the store returned as m1, s1, ..., mn, sn the
\* run is DEL key, ZADD key sn mn ... s1 m1: every member follows its own
\* score, and the pairs come in the reverse of the store's order.
C14_ZaddPairsReversed ==
  (returned /\ callArgs.type = "zset") =>
    LET v == callArgs.value
        n == Len(v) \div 2
    IN /\ result[1] = [verb |-> "DEL", key |-> callArgs.key, args |-> <<>>]
       /\ result[2].verb = "ZADD"
       /\ result[2].key = callArgs.key
       /\ Len(ZaddArgs) = Len(v)
       /\ \A j \in 1..n :
            /\ ZaddArgs[2 * j - 1] = v[2 * (n - j + 1)]
            /\ ZaddArgs[2 * j] = v[2 * (n - j + 1) - 1]

C14_Witness ==
  /\ returned
  /\ callArgs.type = "zset"
  /\ Len(callArgs.value) = 4
  /\ callArgs.value[1] # callArgs.value[3]
  /\ callArgs.value[1] # callArgs.value[2]

\* C15: the output is the concatenation of whole per-key blocks in the order
\* the resolutions complete: whenever the output changes, the complete run of
\* the key whose resolution finishes in that step is appended behind
\* everything delivered before, which stays as it was.
C15_BlocksInCompletionOrder ==
  [][out' # out =>
       \E k \in Keys :
         /\ stage[k] = "fetch" /\ stage'[k] = "done"
         /\ Len(out') = Len(out) + 1
         /\ SubSeq(out', 1, Len(out)) = out
         /\ IsRunOf(out'[Len(out')], k)
         /\ \A i \in 1..Len(out'[Len(out')]) : out'[Len(out')][i].key = k]_vars

C15_Witness ==
  /\ Len(out) = 2
  /\ out[1][1].key = 2
  /\ out[2][1].key = 1
  /\ pagesReturned = 1

\* C16: with a filter, no resolution is started and no run is delivered for a
\* key the filter does not match, on any page of the scan, and when
\* end-of-stream is signalled without an error or a cancel the output has a
\* run for exactly the keys the constructor's filter matches.
C16_FilterSelectsKeys ==
  /\ \A k \in Keys : stage[k] # "idle" => k \in Matching(filter)
  /\ \A i \in 1..Len(out) : out[i] # <<>> /\ out[i][1].key \in Matching(filter)
  /\ (endSignals > 0 /\ errors = 0 /\ ~cancelled) =>
       { out[i][1].key : i \in 1..Len(out) } = Matching(filter)

C16_Witness ==
  /\ filter = <<"m", ":", "*">>
  /\ endSignals > 0 /\ errors = 0 /\ ~cancelled
  /\ Len(out) = 1
  /\ out[1][1].key = 2
  /\ pagesReturned >= 2

\* C17: when the scan selects no key (an empty database, a filter nothing
\* matches), the dumper delivers no byte, starts no resolution, emits no
\* error, and signals end-of-stream.
C17_NoKeysEndsClean ==
  /\ [](Matching(filter) = {} =>
          /\ out = <<>>
          /\ dumping = 0 /\ fetches = 0
          /\ \A k \in Keys : stage[k] = "idle"
          /\ errors = 0 /\ ~crashed
          /\ endSignals <= 1)
  /\ (Matching(filter) = {}) ~> (endSignals = 1)

C17_Witness ==
  /\ Matching(filter) = {}
  /\ endSignals = 1 /\ endEmitted
  /\ out = <<>>
  /\ pagesReturned >= 2

\* a step in which the scan stream emits 'data' (lines 88-92): a buffered page
\* leaves the buffer, or a reply is handed on at once
ScanDataEmitted ==
  /\ scanFlowing
  /\ \/ scanBuf # <<>> /\ scanBuf' = Tail(scanBuf)
     \/ /\ scanBuf = <<>> /\ scanBuf' = <<>>
        /\ scanPending /\ ~scanPending'
        /\ scanFailed' = scanFailed

\* a 'data' step whose page is empty: dumpKey (line 116) did not count a key
EmptyPageEmitted == ScanDataEmitted /\ dumping' = dumping

\* C18: an empty page neither marks the scan exhausted nor signals
\* end-of-stream, and while the scan is not exhausted the next batch is
\* requested; exhaustion is recorded only in the step in which the scan
\* stream emits 'end'.
C18_EmptyPageGoesOn ==
  [][/\ EmptyPageEmitted =>
          /\ keys' = <<>>
          /\ scanDrained' = scanDrained
          /\ endSignals' = endSignals
          /\ ~scanDrained => (scanFlowing' /\ requests' = requests + 1)
     /\ (scanDrained' /\ ~scanDrained) =>
          (scanNullPushed /\ ~scanEndEmitted /\ scanEndEmitted')]_vars

C18_Witness ==
  /\ requests >= 2
  /\ Matching(filter) # {}
  /\ remaining = Keys
  /\ keys = <<>> /\ dumping = 0
  /\ scanFlowing /\ ~scanDrained
  /\ endSignals = 0

\* no resolution has failed: no chain was rejected and dumpKey did not throw
NoResolutionFailed ==
  /\ ~crashed
  /\ \A k \in Keys : stage[k] \notin {"failed", "unhandled", "threw"}

\* C19: while no resolution has failed, dumping is the number of resolutions
\* dumpKey started whose block was not pushed yet; it is never negative, and
\* the step that signals end-of-stream leaves it as it is.
C19_DumpingCountsInFlight ==
  /\ [](/\ dumping >= 0
        /\ NoResolutionFailed => dumping = Cardinality(InFlight))
  /\ [][endSignals' # endSignals => dumping' = dumping]_vars

C19_Witness ==
  /\ NoResolutionFailed
  /\ dumping = 1
  /\ \E k \in Keys : stage[k] = "fetch"
  /\ \E k \in Keys : stage[k] = "done"
  /\ out # <<>>

\* keys the store returned that wait in the batch or in a page not emitted yet
KeysWaiting ==
  { keys[i] : i \in 1..Len(keys) } \cup
  UNION { { scanBuf[p][i] : i \in 1..Len(scanBuf[p]) } : p \in 1..Len(scanBuf) }

\* C20: a batch the scan delivers never replaces a batch that still holds
\* keys: in every step in which the 'data' handler runs, the batch it replaces
\* is empty, so every key the store returned is waiting or had its resolution
\* started (unless dumpKey threw).
C20_BatchNeverOverwritten ==
  /\ [][ScanDataEmitted => keys = <<>>]_vars
  /\ [](~crashed =>
          \A k \in Matching(filter) \ remaining :
            k \in KeysWaiting \/ stage[k] # "idle")

C20_Witness ==
  /\ requests >= 2
  /\ pagesReturned >= 2
  /\ \E k \in Keys : stage[k] = "done"
  /\ \E k \in Keys : stage[k] \in {"type", "fetch"}
  /\ Len(out) = 1
  /\ ~cancelled

\* C21: after cancel, the reply to an operation that was in flight surfaces
\* no error event to the consumer: not the reply to a scan page, not the
\* replies to a key's calls, and in particular not a type reply that finds
\* the client field cleared by _destroy. (Steps in which the store call itself
\* fails, or the type has no case in loadValue, are left aside: the statement
\* is about the replies the pipeline has a path for.)
C21_NoErrorAfterCancel ==
  [][(/\ cancelled
      /\ \/ \E k \in Keys : /\ stage[k] \in {"type", "fetch"}
                            /\ stage'[k] \notin {stage[k], "failed", "unhandled"}
         \/ scanPending /\ ~scanPending' /\ scanFailed' = scanFailed)
     => errors' = errors]_vars

====
